---------------------------- MODULE Spec2Model ----------------------------
(***************************************************************************)
(* Model of generate_test_sound.py: a script that synthesises a 440 Hz     *)
(* sine tone, quantises it to 16-bit PCM and writes it as a WAV file       *)
(* through the standard wave module.                                       *)
(*                                                                         *)
(* Numbers.  TLC integers are 32 bits wide, so the script's floating-point *)
(* values are carried as fixed-point numbers of five limbs                 *)
(*     <<x0, x1, x2, x3, x4>>  =  x0 + x1/B + x2/B^2 + x3/B^3 + x4/B^4     *)
(* with B = 2^14: x0 is the integer part and x1..x4 hold 56 fraction bits. *)
(* Every double the script uses as a literal (0.15, 0.3, math.pi) has at   *)
(* most 56 fraction bits and is represented exactly.  Magnitudes only: the *)
(* sign of a sine value is kept beside its magnitude.                      *)
(***************************************************************************)
EXTENDS Integers, Sequences, FiniteSets

\* ------------------------------------------------------------------------
\* Fixed-point arithmetic (the model's stand-in for IEEE doubles)
\* ------------------------------------------------------------------------

LimbBase == 2^14

FixZero == <<0, 0, 0, 0, 0>>

FixOne == <<1, 0, 0, 0, 0>>

\* X * k for a machine integer 0 <= k < 2^17, exactly.
MulSmall(X, k) ==
    LET t4 == X[5] * k
        t3 == X[4] * k + (t4 \div LimbBase)
        t2 == X[3] * k + (t3 \div LimbBase)
        t1 == X[2] * k + (t2 \div LimbBase)
        t0 == X[1] * k + (t1 \div LimbBase)
    IN  <<t0, t1 % LimbBase, t2 % LimbBase, t3 % LimbBase, t4 % LimbBase>>

\* floor(X / d) to 56 fraction bits for a machine integer 0 < d < 2^17.
DivSmall(X, d) ==
    LET n1 == (X[1] % d) * LimbBase + X[2]
        n2 == (n1 % d) * LimbBase + X[3]
        n3 == (n2 % d) * LimbBase + X[4]
        n4 == (n3 % d) * LimbBase + X[5]
    IN  <<X[1] \div d, n1 \div d, n2 \div d, n3 \div d, n4 \div d>>

\* X * Y truncated to 56 fraction bits (integer parts below 2^14).
Mul(X, Y) ==
    LET c8 == X[5] * Y[5]
        c7 == X[4] * Y[5] + X[5] * Y[4] + (c8 \div LimbBase)
        c6 == X[3] * Y[5] + X[4] * Y[4] + X[5] * Y[3] + (c7 \div LimbBase)
        c5 == X[2] * Y[5] + X[3] * Y[4] + X[4] * Y[3] + X[5] * Y[2]
              + (c6 \div LimbBase)
        c4 == X[1] * Y[5] + X[2] * Y[4] + X[3] * Y[3] + X[4] * Y[2]
              + X[5] * Y[1] + (c5 \div LimbBase)
        c3 == X[1] * Y[4] + X[2] * Y[3] + X[3] * Y[2] + X[4] * Y[1]
              + (c4 \div LimbBase)
        c2 == X[1] * Y[3] + X[2] * Y[2] + X[3] * Y[1] + (c3 \div LimbBase)
        c1 == X[1] * Y[2] + X[2] * Y[1] + (c2 \div LimbBase)
        c0 == X[1] * Y[1] + (c1 \div LimbBase)
    IN  <<c0, c1 % LimbBase, c2 % LimbBase, c3 % LimbBase, c4 % LimbBase>>

\* X < Y
Less(X, Y) ==
    \E k \in 1..5 : X[k] < Y[k] /\ \A j \in 1..(k - 1) : X[j] = Y[j]

\* X - Y, or 0 when Y exceeds X.
Sub(X, Y) ==
    IF Less(X, Y) THEN FixZero
    ELSE LET d4 == X[5] - Y[5]
             b4 == IF d4 < 0 THEN 1 ELSE 0
             d3 == X[4] - Y[4] - b4
             b3 == IF d3 < 0 THEN 1 ELSE 0
             d2 == X[3] - Y[3] - b3
             b2 == IF d2 < 0 THEN 1 ELSE 0
             d1 == X[2] - Y[2] - b2
             b1 == IF d1 < 0 THEN 1 ELSE 0
         IN  <<X[1] - Y[1] - b1, d1 % LimbBase, d2 % LimbBase,
               d3 % LimbBase, d4 % LimbBase>>

\* The fraction of X is zero / exactly one half / above one half.
FracIsZero(X) == X[2] = 0 /\ X[3] = 0 /\ X[4] = 0 /\ X[5] = 0

FracIsHalf(X) == X[2] = LimbBase \div 2 /\ X[3] = 0 /\ X[4] = 0 /\ X[5] = 0

FracAboveHalf(X) == X[2] >= LimbBase \div 2 /\ ~FracIsHalf(X)


RECURSIVE BitLen(_)
\* Number of bits of a natural number.
BitLen(n) == IF n = 0 THEN 0 ELSE 1 + BitLen(n \div 2)

\* Mutant of RoundDouble: the product is kept exact, as if the multiplication
\* of line 18 were done in real arithmetic on the double 0.15.
RoundDoubleExact(X) == X

\* X rounded to the nearest double (53 significant bits, ties to even), for
\* 1 <= X < 2^24; a value below 1 is returned as it is.
RoundDouble(X) ==
    IF X[1] = 0 THEN X
    ELSE LET u == 2^(BitLen(X[1]) + 3)
             low == X[4] * LimbBase + X[5]
             rem == low % u
             up == rem * 2 > u \/ (rem * 2 = u /\ (low \div u) % 2 = 1)
             low2 == low - rem + (IF up THEN u ELSE 0)
             t3 == X[3] + (low2 \div (LimbBase * LimbBase))
             t2 == X[2] + (t3 \div LimbBase)
         IN  <<X[1] + (t2 \div LimbBase), t2 % LimbBase, t3 % LimbBase,
               (low2 \div LimbBase) % LimbBase, low2 % LimbBase>>

\* ------------------------------------------------------------------------
\* Sound parameters (generate_test_sound.py, lines 12-15)
\* ------------------------------------------------------------------------

sample_rate == 44100

\* The double nearest 0.15, i.e. 5404319552844595 / 2^55.
duration == <<0, 2457, 9830, 6553, 9830>>

\* 440.0
frequency == 440

\* The double nearest 0.3, i.e. 5404319552844595 / 2^54.
amplitude == <<0, 4915, 3276, 13107, 3276>>

\* Mutant of PcmScale: the scale of unsigned 16-bit samples.
PcmScaleUnsigned == 2 * 32767 + 1

\* 32767.0, the PCM scale of line 25.
PcmScale == 32767

\* math.pi, the double 884279719003555 / 2^48.
MathPi == <<3, 2319, 13992, 8726, 8960>>

\* pi/2 and 2/pi to 56 fraction bits, as the sine's argument reduction
\* uses them.
HalfPi == <<1, 9351, 15188, 4363, 4484>>

TwoOverPi == <<0, 10430, 6198, 14649, 1045>>

\* ------------------------------------------------------------------------
\* Python's float operations
\* ------------------------------------------------------------------------

\* k * X in double arithmetic: the exact product rounded to a double.
FloatMul(k, X) == RoundDouble(MulSmall(X, k))

\* A signed value: the magnitude and whether it is negative.
Signed(neg, mag) == [neg |-> neg, mag |-> mag]

\* Mutant of IntOf: the value is rounded down rather than toward zero.
IntOfRoundingDown(v) ==
    IF v.neg /\ ~FracIsZero(v.mag) THEN -(v.mag[1]) - 1
    ELSE IF v.neg THEN -(v.mag[1]) ELSE v.mag[1]

\* int(v): truncation toward zero.
IntOf(v) == IF v.neg THEN -(v.mag[1]) ELSE v.mag[1]

\* math.floor(v)
FloorOf(v) ==
    IF v.neg /\ ~FracIsZero(v.mag) THEN -(v.mag[1]) - 1 ELSE IntOf(v)

\* round(v): to the nearest integer, ties to the even one.
RoundOf(v) ==
    LET n == v.mag[1]
        m == IF FracAboveHalf(v.mag) \/ (FracIsHalf(v.mag) /\ n % 2 = 1)
             THEN n + 1 ELSE n
    IN  IF v.neg THEN -m ELSE m

\* Number of terms of the sine and cosine series; the first term left out
\* is below 2^-56 for every reduced argument (below pi/2).
SinTerms == 11

RECURSIVE SinH(_, _)
\* 1 - r2/(2n(2n+1)) * (1 - r2/((2n+2)(2n+3)) * (...)): sin(r)/r by Horner.
SinH(r2, n) ==
    IF n > SinTerms THEN FixOne
    ELSE Sub(FixOne, DivSmall(Mul(r2, SinH(r2, n + 1)), (2 * n) * (2 * n + 1)))

RECURSIVE CosH(_, _)
\* 1 - r2/((2n-1)2n) * (1 - r2/((2n+1)(2n+2)) * (...)): cos(r) by Horner.
CosH(r2, n) ==
    IF n > SinTerms THEN FixOne
    ELSE Sub(FixOne, DivSmall(Mul(r2, CosH(r2, n + 1)), (2 * n - 1) * (2 * n)))

\* math.sin(X) for X >= 0: reduce by k = floor(X * 2/pi) quarter turns to
\* r in [0, pi/2), then the series of sin or cos by the quadrant k mod 4.
\* The result is within 2^-50 of the sine.
Sin(X) ==
    LET k == Mul(X, TwoOverPi)[1]
        r == Sub(X, MulSmall(HalfPi, k))
        r2 == Mul(r, r)
        q == k % 4
    IN  Signed(q \in {2, 3},
               IF q \in {0, 2} THEN Mul(r, SinH(r2, 1)) ELSE CosH(r2, 1))

\* 2.0 * math.pi * frequency * i / sample_rate (line 23).
Angle(i) ==
    DivSmall(MulSmall(MulSmall(MulSmall(MathPi, 2), frequency), i), sample_rate)

\* sample * 32767.0 with sample = amplitude * math.sin(...) (lines 23, 25).
ScaledSample(i) ==
    LET s == Sin(Angle(i))
        sample == Mul(amplitude, s.mag)
    IN  Signed(s.neg, MulSmall(sample, PcmScale))

\* pcm_sample = int(sample * 32767.0) (line 25).
PcmSample(i) == IntOf(ScaledSample(i))

\* int(sample_rate * duration) (line 18).
NumSamples == IntOf(Signed(FALSE, FloatMul(sample_rate, duration)))

\* ------------------------------------------------------------------------
\* struct.pack and the WAV header of wave.Wave_write
\* ------------------------------------------------------------------------

\* struct.pack('<h', v) raises struct.error outside this range.
PackInRange(v) == v >= -32768 /\ v <= 32767

\* A 16-bit packing with the high byte first, as '>h' would give.
PackHBigEndian(v) ==
    LET u == v % 65536
    IN  <<u \div 256, u % 256>>

\* struct.pack('<h', v): two's complement, low byte first.
PackH(v) ==
    LET u == v % 65536
    IN  <<u % 256, u \div 256>>

\* struct.pack('<H', v)
PackUH(v) == <<v % 256, (v \div 256) % 256>>

\* struct.pack('<L', v)
PackUL(v) ==
    <<v % 256, (v \div 256) % 256, (v \div 65536) % 256,
      (v \div 16777216) % 256>>

TagRIFF == <<82, 73, 70, 70>>

TagWAVE == <<87, 65, 86, 69>>

TagFmt == <<102, 109, 116, 32>>

TagData == <<100, 97, 116, 97>>

\* Mutant of HeaderBytes: the byte rate leaves out the sample width.
HeaderBytesRateNoWidth(w, n) ==
    TagRIFF \o PackUL(36 + n) \o TagWAVE \o TagFmt \o PackUL(16)
    \o PackUH(1) \o PackUH(w.nchannels) \o PackUL(w.framerate)
    \o PackUL(w.nchannels * w.framerate)
    \o PackUH(w.nchannels * w.sampwidth) \o PackUH(w.sampwidth * 8)
    \o TagData \o PackUL(n)

\* The 44 bytes Wave_write._write_header writes for writer state w and
\* data length n ('<L4s4sLHHLLHH4s', then '<L'); the format tag is
\* WAVE_FORMAT_PCM = 1.
HeaderBytes(w, n) ==
    TagRIFF \o PackUL(36 + n) \o TagWAVE \o TagFmt \o PackUL(16)
    \o PackUH(1) \o PackUH(w.nchannels) \o PackUL(w.framerate)
    \o PackUL(w.nchannels * w.framerate * w.sampwidth)
    \o PackUH(w.nchannels * w.sampwidth) \o PackUH(w.sampwidth * 8)
    \o TagData \o PackUL(n)

\* A header patch that rewrites the form length only.
PatchedBytesFormOnly(d, n) ==
    SubSeq(d, 1, 4) \o PackUL(36 + n) \o SubSeq(d, 9, Len(d))

\* Wave_write._patchheader on file content d: the form length (offset 4) and
\* the data length (offset 40) are rewritten for n data bytes.
PatchedBytes(d, n) ==
    SubSeq(d, 1, 4) \o PackUL(36 + n) \o SubSeq(d, 9, 40) \o PackUL(n)
    \o SubSeq(d, 45, Len(d))

\* Wave_write.initfp: the writer's fields after wave.open(..., 'w').
InitWriter ==
    [nchannels |-> 0, sampwidth |-> 0, framerate |-> 0, nframes |-> 0,
     nframeswritten |-> 0, datawritten |-> 0, datalength |-> 0,
     headerwritten |-> FALSE]

\* A writer with its file: the Wave_write fields w, the bytes buf that the
\* buffered file object holds and has not yet written, and the bytes disk
\* of the file as the file system has it.
WriterFile(w, b, d) == [w |-> w, buf |-> b, disk |-> d]

\* Wave_write._write_header(initlength)
WriteHeader(f, initlength) ==
    LET nframes == IF f.w.nframes = 0
                   THEN initlength \div (f.w.nchannels * f.w.sampwidth)
                   ELSE f.w.nframes
        datalength == nframes * f.w.nchannels * f.w.sampwidth
    IN  WriterFile([f.w EXCEPT !.nframes = nframes,
                               !.datalength = datalength,
                               !.headerwritten = TRUE],
                   f.buf \o HeaderBytes(f.w, datalength), f.disk)

\* Wave_write._ensure_header_written(datasize)
EnsureHeaderWritten(f, datasize) ==
    IF f.w.headerwritten THEN f ELSE WriteHeader(f, datasize)

\* Wave_write.writeframesraw(data)
WriteFramesRaw(f, data) ==
    LET g == EnsureHeaderWritten(f, Len(data))
        nframes == Len(data) \div (g.w.sampwidth * g.w.nchannels)
    IN  WriterFile([g.w EXCEPT !.datawritten = @ + Len(data),
                               !.nframeswritten = @ + nframes],
                   g.buf \o data, g.disk)

\* Mutant of PatchHeader: the header is never rewritten.
PatchHeaderSkipped(f) == f

\* Wave_write._patchheader(): each seek writes the buffered bytes out, so
\* the call leaves the file on disk complete up to the current position.
PatchHeader(f) ==
    IF f.w.datawritten = f.w.datalength THEN f
    ELSE WriterFile([f.w EXCEPT !.datalength = f.w.datawritten], <<>>,
                    PatchedBytes(f.disk \o f.buf, f.w.datawritten))

\* Wave_write.writeframes(data)
WriteFrames(f, data) ==
    LET g == WriteFramesRaw(f, data)
    IN  IF g.w.datalength # g.w.datawritten THEN PatchHeader(g) ELSE g

\* Wave_write.close(), up to the flush.
CloseWriter(f) ==
    LET g == EnsureHeaderWritten(f, 0)
        h == IF g.w.datalength # g.w.datawritten THEN PatchHeader(g) ELSE g
    IN  WriterFile(h.w, <<>>, h.disk \o h.buf)

\* ------------------------------------------------------------------------
\* The script as a state machine
\* ------------------------------------------------------------------------

VARIABLES
    pc,           \* position in the script
    num_samples,  \* line 18
    samples,      \* line 19: the list of PCM values
    i,            \* loop variable of line 21
    j,            \* number of iterations of the loop of line 37 so far
    exists,       \* whether assets/sounds/menu_click.wav exists
    disk,         \* its bytes in the file system
    buf,          \* bytes written to the file object and still buffered
    wav_file,     \* the Wave_write object's fields
    handle,       \* the output file handle: "none", "open" or "closed"
    closes,       \* how many times the handle has been closed
    error,        \* the uncaught exception, or "none"
    stdout,       \* the lines printed
    runs,         \* the number of runs of the script, this one included
    before        \* history: the output path as this run found it

vars == <<pc, num_samples, samples, i, j, exists, disk, buf, wav_file,
          handle, closes, error, stdout, runs, before>>

\* Runs of the script in succession.
MaxRuns == 2

\* Length of the longest file found at the output path before the first run.
MaxPriorLen == 13300

\* The loops of lines 21 and 37 run num_samples times.  A step of the model
\* is a run of n consecutive iterations, n in RunLengths, started at a
\* multiple of n: one iteration, Stride iterations, or the whole loop.  Every
\* state between two iterations is reachable (n = 1), and within
\* 2 * Stride steps.
Stride == 81

RunLengths == {1, Stride, NumSamples}

\* What the output path may hold before the first run: nothing, a few bytes,
\* or a file longer than the one the script writes.
PriorFiles ==
    { [exists |-> FALSE, disk |-> <<>>],
      [exists |-> TRUE, disk |-> <<1, 2, 3>>],
      [exists |-> TRUE, disk |-> [k \in 1..MaxPriorLen |-> 255]] }

\* A fresh interpreter at the top of the script.
Fresh ==
    /\ pc = "start"
    /\ num_samples = 0
    /\ samples = <<>>
    /\ i = 0
    /\ j = 0
    /\ buf = <<>>
    /\ wav_file = InitWriter
    /\ handle = "none"
    /\ closes = 0
    /\ error = "none"
    /\ stdout = <<>>

Init ==
    /\ Fresh
    /\ runs = 1
    /\ \E f \in PriorFiles : exists = f.exists /\ disk = f.disk /\ before = f

\* An open that keeps the content, as mode 'r+b' would.
NotTruncated(d) == d

\* builtins.open(f, 'wb') on content d: the file is created or truncated.
Truncated(d) == <<>>

\* An exception that is swallowed, the script going on to its prints.
UncaughtSwallowed == "print1"

\* Where an exception that leaves the script's top level takes it: nothing
\* catches it, the interpreter exits.
Uncaught == "failed"

\* Leaving the block without closing, as a bare wave.open would.
ExitWithLeak(h) == h

\* The handle after the with statement's __exit__ on handle h: close() ends
\* in file.close() on every path.
ExitWith(h) == "closed"

\* Lines 18-19.
ComputeNumSamples ==
    /\ pc = "start"
    /\ num_samples' = NumSamples
    /\ samples' = <<>>
    /\ pc' = IF NumSamples > 0 THEN "gen" ELSE "open"
    /\ UNCHANGED <<i, j, exists, disk, buf, wav_file, handle, closes, error,
                   stdout, runs, before>>

\* Lines 21-26: the list acc after n more iterations of the generation loop
\* from loop variable k, each appending its pcm_sample.
GenerateLoop(acc, k, n) ==
    acc \o [m \in 1..n |-> PcmSample(k + m - 1)]

\* Lines 21-26: n consecutive iterations of the generation loop.
Generate(n) ==
    /\ pc = "gen"
    /\ i % n = 0
    /\ i + n <= num_samples
    /\ samples' = GenerateLoop(samples, i, n)
    /\ i' = i + n
    /\ pc' = IF i + n < num_samples THEN "gen" ELSE "open"
    /\ UNCHANGED <<num_samples, j, exists, disk, buf, wav_file, handle,
                   closes, error, stdout, runs, before>>

\* Lines 29-30: wave.open(output_file, 'w') succeeds.
OpenOk ==
    /\ pc = "open"
    /\ exists' = TRUE
    /\ disk' = Truncated(disk)
    /\ buf' = <<>>
    /\ wav_file' = InitWriter
    /\ handle' = "open"
    /\ pc' = "setnchannels"
    /\ UNCHANGED <<num_samples, samples, i, j, closes, error, stdout, runs,
                   before>>

\* Line 30: wave.open raises OSError (directory missing or not writable).
OpenFail ==
    /\ pc = "open"
    /\ error' = "OSError"
    /\ pc' = Uncaught
    /\ UNCHANGED <<num_samples, samples, i, j, exists, disk, buf, wav_file,
                   handle, closes, stdout, runs, before>>

\* Line 32.
SetNChannels ==
    /\ pc = "setnchannels"
    /\ wav_file' = [wav_file EXCEPT !.nchannels = 1]
    /\ pc' = "setsampwidth"
    /\ UNCHANGED <<num_samples, samples, i, j, exists, disk, buf, handle,
                   closes, error, stdout, runs, before>>

\* Line 33.
SetSampWidth ==
    /\ pc = "setsampwidth"
    /\ wav_file' = [wav_file EXCEPT !.sampwidth = 2]
    /\ pc' = "setframerate"
    /\ UNCHANGED <<num_samples, samples, i, j, exists, disk, buf, handle,
                   closes, error, stdout, runs, before>>

\* Line 34.
SetFrameRate ==
    /\ pc = "setframerate"
    /\ wav_file' = [wav_file EXCEPT !.framerate = sample_rate]
    /\ pc' = IF Len(samples) > 0 THEN "write" ELSE "close"
    /\ UNCHANGED <<num_samples, samples, i, j, exists, disk, buf, handle,
                   closes, error, stdout, runs, before>>

RECURSIVE WriteLoop(_, _, _)
\* Lines 37-38: n iterations of the write loop from list index k (0-based),
\* none of which raises: one iteration, or the first half of the iterations
\* (leaving the writer g) followed by the rest.
WriteLoop(f, k, n) ==
    IF n = 0 THEN f
    ELSE IF n = 1 THEN WriteFrames(f, PackH(samples[k + 1]))
    ELSE CHOOSE r \in { WriteLoop(g, k + (n \div 2), n - (n \div 2)) :
                        g \in {WriteLoop(f, k, n \div 2)} } : TRUE

\* Lines 37-38: n consecutive iterations of the write loop without an I/O
\* error.  struct.pack raises struct.error for a value out of range; the
\* exception leaves the with block, which closes the file, and nothing
\* catches it.
WriteFrame(n) ==
    /\ pc = "write"
    /\ j % n = 0
    /\ j + n <= Len(samples)
    /\ IF \A k \in (j + 1)..(j + n) : PackInRange(samples[k])
       THEN LET f == WriteLoop(WriterFile(wav_file, buf, disk), j, n)
            IN  /\ wav_file' = f.w
                /\ buf' = f.buf
                /\ disk' = f.disk
                /\ j' = j + n
                /\ pc' = IF j + n < Len(samples) THEN "write" ELSE "close"
                /\ UNCHANGED <<handle, closes, error>>
       ELSE /\ error' = "struct.error"
            /\ handle' = ExitWith(handle)
            /\ closes' = IF handle' = "closed" THEN closes + 1 ELSE closes
            /\ buf' = <<>>
            /\ pc' = Uncaught
            /\ UNCHANGED <<wav_file, disk, j>>
    /\ UNCHANGED <<num_samples, samples, i, exists, stdout, runs, before>>

\* Line 38: writeframes raises OSError (the disk is full); the exception
\* leaves the with block, which closes the file, and nothing catches it.
\* The bytes that could not be written are lost.
WriteFail ==
    /\ pc = "write"
    /\ j < Len(samples)
    /\ error' = "OSError"
    /\ handle' = ExitWith(handle)
    /\ closes' = IF handle' = "closed" THEN closes + 1 ELSE closes
    /\ buf' = <<>>
    /\ pc' = Uncaught
    /\ UNCHANGED <<num_samples, samples, i, j, exists, disk, wav_file,
                   stdout, runs, before>>

\* End of the with block (line 38 to 40): Wave_write.close() succeeds.
CloseOk ==
    /\ pc = "close"
    /\ LET f == CloseWriter(WriterFile(wav_file, buf, disk))
       IN  /\ wav_file' = f.w
           /\ buf' = f.buf
           /\ disk' = f.disk
    /\ handle' = ExitWith(handle)
    /\ closes' = closes + 1
    /\ pc' = "print1"
    /\ UNCHANGED <<num_samples, samples, i, j, exists, error, stdout, runs,
                   before>>

\* End of the with block: close() raises OSError on its flush; its finally
\* clause closes the file all the same.
CloseFail ==
    /\ pc = "close"
    /\ error' = "OSError"
    /\ handle' = ExitWith(handle)
    /\ closes' = IF handle' = "closed" THEN closes + 1 ELSE closes
    /\ buf' = <<>>
    /\ pc' = Uncaught
    /\ UNCHANGED <<num_samples, samples, i, j, exists, disk, wav_file,
                   stdout, runs, before>>

\* Line 40.
Print1 ==
    /\ pc = "print1"
    /\ stdout' = Append(stdout, "Generated test sound")
    /\ pc' = "print2"
    /\ UNCHANGED <<num_samples, samples, i, j, exists, disk, buf, wav_file,
                   handle, closes, error, runs, before>>

\* Line 41.
Print2 ==
    /\ pc = "print2"
    /\ stdout' = Append(stdout, "Duration, Frequency")
    /\ pc' = "done"
    /\ UNCHANGED <<num_samples, samples, i, j, exists, disk, buf, wav_file,
                   handle, closes, error, runs, before>>

\* The script is run again after a run that completed: a new interpreter,
\* the file system as the last run left it.
Rerun ==
    /\ pc = "done"
    /\ runs < MaxRuns
    /\ runs' = runs + 1
    /\ pc' = "start"
    /\ num_samples' = 0
    /\ samples' = <<>>
    /\ i' = 0
    /\ j' = 0
    /\ buf' = <<>>
    /\ wav_file' = InitWriter
    /\ handle' = "none"
    /\ closes' = 0
    /\ error' = "none"
    /\ stdout' = <<>>
    /\ before' = [exists |-> exists, disk |-> disk]
    /\ UNCHANGED <<exists, disk>>

Next ==
    \/ ComputeNumSamples
    \/ \E n \in RunLengths : Generate(n)
    \/ OpenOk
    \/ OpenFail
    \/ SetNChannels
    \/ SetSampWidth
    \/ SetFrameRate
    \/ \E n \in RunLengths : WriteFrame(n)
    \/ WriteFail
    \/ CloseOk
    \/ CloseFail
    \/ Print1
    \/ Print2
    \/ Rerun

Spec == Init /\ [][Next]_vars

\* ------------------------------------------------------------------------
\* Reading a WAV file back (used by the properties below only)
\* ------------------------------------------------------------------------

\* The unsigned 16-bit and 32-bit little-endian integers at byte offset off
\* (0-based) of d.
U16At(d, off) == d[off + 1] + 256 * d[off + 2]

U32At(d, off) ==
    d[off + 1] + 256 * d[off + 2] + 65536 * d[off + 3] + 16777216 * d[off + 4]

\* The four bytes at offset off of d.
TagAt(d, off) == SubSeq(d, off + 1, off + 4)

\* Byte n (0 or 1) of the little-endian two's-complement encoding of the
\* 16-bit integer v.
LE16Byte(v, n) ==
    LET u == IF v < 0 THEN v + 65536 ELSE v
    IN  IF n = 0 THEN u % 256 ELSE u \div 256

\* The file a complete run writes, in closed form: the header for all the
\* frames, then every sample of the synthesis in order.
FinalFile ==
    HeaderBytes([nchannels |-> 1, sampwidth |-> 2, framerate |-> sample_rate],
                2 * NumSamples)
    \o [m \in 1..(2 * NumSamples) |->
            LE16Byte(PcmSample((m - 1) \div 2), (m - 1) % 2)]

\* The run has left the with block without an exception.
Written == pc \in {"print1", "print2", "done"}

\* ------------------------------------------------------------------------
\* Properties
\* ------------------------------------------------------------------------

\* C3: after a successful run the file is a 44-byte header followed by
\* num_samples * 2 data bytes: the data size field is 13230 = 2 * num_samples,
\* the RIFF size field is 36 + 13230 and the file is 13274 bytes long.
C3_FileLayout ==
    Written =>
        /\ Len(disk) = 13274
        /\ Len(disk) = 44 + 2 * num_samples
        /\ TagAt(disk, 0) = TagRIFF
        /\ TagAt(disk, 36) = TagData
        /\ U32At(disk, 40) = 13230
        /\ U32At(disk, 40) = 2 * num_samples
        /\ U32At(disk, 4) = 36 + U32At(disk, 40)
        /\ wav_file.nframeswritten = num_samples

\* A first run has completed and left 13274 bytes.
C3_Witness == pc = "done" /\ runs = 1 /\ Len(disk) = 13274

\* C4: num_samples is round(sample_rate * duration), which for the script's
\* parameters is 6615; floor and int of the product give the same value.
C4_NumSamples ==
    pc # "start" =>
        LET product == Signed(FALSE, FloatMul(sample_rate, duration))
        IN  /\ num_samples = 6615
            /\ num_samples = RoundOf(product)
            /\ num_samples = FloorOf(product)

\* Line 18 has run and the generation loop is about to start.
C4_Witness == pc = "gen" /\ i = 0 /\ num_samples = 6615

\* C7: the fmt subchunk of the file reports PCM (1), one channel, 44100 Hz,
\* 16 bits per sample, byte rate 88200 and block align 2.
C7_FmtChunk ==
    (handle # "none" /\ Len(disk) >= 44) =>
        /\ TagAt(disk, 8) = TagWAVE
        /\ TagAt(disk, 12) = TagFmt
        /\ U32At(disk, 16) = 16
        /\ U16At(disk, 20) = 1
        /\ U16At(disk, 22) = 1
        /\ U32At(disk, 24) = 44100
        /\ U32At(disk, 28) = 88200
        /\ U32At(disk, 28) = U32At(disk, 24) * U16At(disk, 22) * 2
        /\ U16At(disk, 32) = 2
        /\ U16At(disk, 32) = U16At(disk, 22) * 2
        /\ U16At(disk, 34) = 16

\* The file of a completed run carries the fmt subchunk.
C7_Witness == pc = "done" /\ Len(disk) >= 44 /\ U32At(disk, 28) = 88200

\* |a|
Abs(a) == IF a < 0 THEN -a ELSE a

\* C5: every pcm[i] is the scaled sample amplitude * sin(...) * 32767 cut
\* toward zero (its magnitude is the integer part of the scaled sample's
\* magnitude, for negative samples as for positive ones), which is within 1
\* of the scaled sample rounded to the nearest integer.
C5_Quantization ==
    pc = "open" =>
        /\ Len(samples) = num_samples
        /\ \A k \in 1..Len(samples) :
              LET v == ScaledSample(k - 1)
              IN  /\ Abs(samples[k]) = v.mag[1]
                  /\ (samples[k] < 0 => v.neg)
                  /\ (samples[k] > 0 => ~v.neg)
                  /\ Abs(samples[k] - RoundOf(v)) <= 1

\* The list is complete and holds negative and positive values, among them
\* one that rounding would have taken one further from zero: sample 3 is
\* int(1837.9...) = 1837 and sample 2202 is int(-1837.9...) = -1837.
C5_Witness ==
    /\ pc = "open"
    /\ Len(samples) = 6615
    /\ samples[4] = 1837 /\ RoundOf(ScaledSample(3)) = 1838
    /\ samples[2203] = -1837 /\ RoundOf(ScaledSample(2202)) = -1838

\* C8: every quantized sample lies in [-9830, 9830], inside the range of a
\* signed 16-bit integer, so that struct.pack('<h', ...) never raises.
C8_SampleRange ==
    /\ error # "struct.error"
    /\ pc = "open" =>
          \A k \in 1..Len(samples) :
              /\ samples[k] >= -9830 /\ samples[k] <= 9830
              /\ samples[k] >= -32767 /\ samples[k] <= 32767
              /\ PackInRange(samples[k])
    /\ (pc = "write" /\ j < Len(samples)) => PackInRange(samples[j + 1])

\* All the samples have been packed and written, and both extremes occur
\* among them.
C8_Witness ==
    /\ pc = "done"
    /\ error = "none"
    /\ j = 6615
    /\ \E k \in 1..Len(samples) : samples[k] = 9830
    /\ \E k \in 1..Len(samples) : samples[k] = -9830

\* The data bytes handed to the file so far: what follows the 44-byte header
\* in the file's content, the bytes still buffered included.
DataWritten == SubSeq(disk \o buf, 45, Len(disk) + Len(buf))

\* The little-endian two's-complement encoding of samples a+1 .. b of the
\* list, that is of pcm[a] .. pcm[b-1], in order.
Encoded(a, b) ==
    [m \in 1..(2 * (b - a)) |->
        LE16Byte(samples[a + 1 + ((m - 1) \div 2)], (m - 1) % 2)]

\* C9: the data subchunk holds the PCM values in generation order, none
\* dropped, duplicated or reordered: nothing is written before the first
\* writeframes call, every run of calls appends the encodings of the samples
\* it iterates over to the data written before, and when the loop is over the
\* data is the encoding of pcm[0 .. num_samples-1], two bytes per sample.
C9_DataOrder ==
    /\ []((handle = "open" /\ j = 0) => disk \o buf = <<>>)
    /\ [][(pc = "write" /\ pc' \in {"write", "close"}) =>
              /\ j' > j
              /\ DataWritten' = DataWritten \o Encoded(j, j')
              /\ Len(DataWritten') = 2 * j']_vars
    /\ [](pc \in {"close", "print1", "print2", "done"} =>
              /\ samples = [k \in 1..num_samples |-> PcmSample(k - 1)]
              /\ DataWritten = Encoded(0, num_samples))

\* 52 calls have been made; the last wrote pcm[51] = -545, a negative value,
\* as the bytes 0xDF 0xFD after those of pcm[50] = 70.
C9_Witness ==
    /\ pc = "write"
    /\ j = 52
    /\ samples[52] = -545
    /\ SubSeq(disk, 44 + 101, 44 + 104) = <<70, 0, 223, 253>>

\* C6: a run that completes leaves exactly the bytes of FinalFile, whatever
\* the output path held before it: nothing, a shorter file, a longer file,
\* or the file of the run before.
C6_Overwrite == pc = "done" => (exists /\ disk = FinalFile)

\* The second of two runs in succession has completed: it found the first
\* run's file and left the same bytes.
C6_Witness ==
    /\ pc = "done"
    /\ runs = 2
    /\ before.exists
    /\ before.disk = FinalFile
    /\ disk = before.disk

\* C1 as stated: at every point of a run an observer of the output path sees
\* what the path held before the run, or the complete final file.
C1_Atomic ==
    \/ (exists = before.exists /\ disk = before.disk)
    \/ (exists /\ disk = FinalFile)

\* C1 as amended: the path holds what it held before the run until wave.open;
\* wave.open leaves an empty file, which stays empty through the first
\* writeframes call; after the j-th call, j >= 2, the file is a well-formed
\* WAV file of the j samples written so far; once closed, it is the complete
\* final file.  (Runs that end in an I/O error are left aside.)
C1_Observed ==
    error = "none" =>
        /\ handle = "none" => (exists = before.exists /\ disk = before.disk)
        /\ handle = "open" =>
              /\ exists
              /\ IF j < 2 THEN disk = <<>>
                 ELSE /\ Len(disk) = 44 + 2 * j
                      /\ TagAt(disk, 0) = TagRIFF
                      /\ U32At(disk, 4) = 36 + 2 * j
                      /\ U32At(disk, 40) = 2 * j
        /\ handle = "closed" => (exists /\ disk = FinalFile)

\* Two calls of writeframes into a run over a three-byte file: the observer
\* sees a 48-byte WAV file, neither the old content nor the final file.
C1_Witness ==
    /\ pc = "write"
    /\ handle = "open"
    /\ j = 2
    /\ Len(before.disk) = 3
    /\ Len(disk) = 48
    /\ U32At(disk, 40) = 4

\* C2: an I/O error (OSError) is the only kind of error a run ends with; it
\* is not caught: the run stops where the error occurred, with no step left
\* to take, so that no further sample is written and nothing is printed.  A
\* confirmation line is printed only in a run without error, after every
\* sample has been written and the file, complete, has been closed.
C2_FailStop ==
    /\ error \in {"none", "OSError"}
    /\ (pc = "failed") = (error # "none")
    /\ error # "none" => (stdout = <<>> /\ ~ENABLED Next)
    /\ stdout # <<>> =>
          /\ error = "none"
          /\ j = num_samples
          /\ handle = "closed"
          /\ disk = FinalFile

\* The 101st writeframes call failed: the run is over with the 100 samples
\* written before it in the file and nothing printed.
C2_Witness ==
    /\ pc = "failed"
    /\ error = "OSError"
    /\ j = 100
    /\ Len(disk) = 44 + 200
    /\ stdout = <<>>

\* C10: once wave.open has succeeded the handle is closed exactly once on
\* every path out of the with block, and no run ends, normally or by an
\* error, with the handle open.
C10_HandleReleased ==
    /\ handle \in {"none", "open", "closed"}
    /\ closes = IF handle = "closed" THEN 1 ELSE 0
    /\ handle = "none" => pc \in {"start", "gen", "open", "failed"}
    /\ handle = "open" =>
          pc \in {"setnchannels", "setsampwidth", "setframerate", "write",
                  "close"}
    /\ handle = "closed" => pc \in {"print1", "print2", "done", "failed"}

\* The second writeframes call failed; the with block closed the handle, once.
C10_Witness ==
    /\ pc = "failed"
    /\ j = 1
    /\ handle = "closed"
    /\ closes = 1

=============================================================================
